---- MODULE Spec2Model ----
(***************************************************************************)
(* A model of the solver driver (Solve.py) and of the cuOpt solve service  *)
(* (cuopt_mps_solver_server.py).                                           *)
(*                                                                         *)
(* Spec       : one run of the driver, entered through main() or through   *)
(*              a direct call of one of its three solver functions.        *)
(* SpecServer : one request handled by solve_from_request.                 *)
(*                                                                         *)
(* A path is the tuple of its components (pathlib's Path.parts); a string  *)
(* that the code inspects character by character is a tuple of characters. *)
(***************************************************************************)
EXTENDS Naturals, Integers, Sequences, FiniteSets, TLC

VARIABLES
    entry,        \* the function the run enters: "main" or a solver function
    command,      \* args.command
    input_file,   \* args.input_file
    output_file,  \* args.output_file (<<>> where the subcommand has none)
    cfgExists,    \* args.config names an existing file
    cfgSections,  \* the sections of the configuration file
    cfgOptions,   \* the <<section, option>> pairs of the configuration file
    cfgValue,     \* the value of each option
    fs,           \* the paths that exist in the file system
    pc,           \* position of the run
    args,         \* positional arguments of the solver function being run
    returnTo,     \* where the run continues when the solver function returns
    calls,        \* every call of a solver function: [fn, args]
    procs,        \* every child process started: [argv, stdin, exited, returncode, wrote]
    reports,      \* every outcome a runner reported: [fn, returncode, present, msg]
    posts,        \* every HTTP POST issued: [url, file_name]
    resp,         \* what the current POST came back with
    out,          \* the messages printed, in order
    exc,          \* the exception that ended the run, "none" otherwise
    \* --- the solve service ---
    request,      \* the MPSRequest: [file_name, time_limit, batch_size]
    sfs,          \* the paths that exist inside the service's container
    file_path,    \* the joined, normalised path (<<>> before it is computed)
    spc,          \* position of solve_from_request
    parsed,       \* data_model_list: the path of every ParseMps call made
    solves,       \* every BatchSolve call: [models, time_limit, method]
    batch_solution, \* the solutions BatchSolve returned, one per data model
    result,       \* result_obj: attribute name -> attribute
    reply         \* the HTTP reply: [code, status, objective_value, details]

driverVars == <<entry, command, input_file, output_file, cfgExists,
                cfgSections, cfgOptions, cfgValue, fs, pc, args, returnTo,
                calls, procs, reports, posts, resp, out, exc>>

serverVars == <<request, sfs, file_path, spc, parsed, solves, batch_solution,
                result, reply>>

vars == <<driverVars, serverVars>>

----------------------------------------------------------------------------
(* Bounds and the small sets the inputs are drawn from.                    *)

\* Child processes exit with a code in 0..MaxExit.
MaxExit == 2

ExitCodes == 0..MaxExit

Commands == {"solve-cuopt", "solve-scip", "solve-highs", "presolve-and-solve"}

\* Values of the two executable options of the configuration file.
ExePaths == {<<"bin", "scip">>, <<"bin", "highs">>}

\* Values of the positional CLI paths.
ModelPaths == {<<"model.mps">>, <<"work", "presolved.mps">>}

ServerUrl == "http://host:8000/solve_mps"

\* Protocol names a direct caller may pass to execute_scip_command.
SolveTypes == {"presolve", "solve", "optimize"}

Sections == {"Paths", "cuOpt"}

RequiredOptions ==
    {<<"Paths", "scip_solver_exe">>, <<"Paths", "highs_solver_exe">>,
     <<"cuOpt", "server_url">>}

----------------------------------------------------------------------------
(* load_config and ConfigParser.get                                        *)

\* load_config: the exception it raises, "none" when it returns the parser.
load_config ==
    IF ~cfgExists THEN "FileNotFoundError" ELSE "none"

\* ConfigParser.get(section, option): the exception it raises, or "none".
ConfigGetError(section, option) ==
    IF section \notin cfgSections THEN "NoSectionError"
    ELSE IF <<section, option>> \notin cfgOptions THEN "NoOptionError"
    ELSE "none"

\* The first exception of the four statements of main's try block.
ConfigError ==
    IF load_config # "none" THEN load_config
    ELSE IF ConfigGetError("Paths", "scip_solver_exe") # "none"
        THEN ConfigGetError("Paths", "scip_solver_exe")
    ELSE IF ConfigGetError("Paths", "highs_solver_exe") # "none"
        THEN ConfigGetError("Paths", "highs_solver_exe")
    ELSE ConfigGetError("cuOpt", "server_url")

\* Faulty variant: the except clause forgets NoOptionError.
CaughtByMain_NoOptionError == {"FileNotFoundError", "NoSectionError"}

\* The exception classes main's except clause names.
CaughtByMain == {"FileNotFoundError", "NoSectionError", "NoOptionError"}

scip_exe == cfgValue[<<"Paths", "scip_solver_exe">>]
highs_exe == cfgValue[<<"Paths", "highs_solver_exe">>]
cuopt_url == cfgValue[<<"cuOpt", "server_url">>]

----------------------------------------------------------------------------
(* Calls of the solver functions                                           *)

\* The positional parameters each solver function declares (those without
\* a default are all of them for the runners; the client has two more with
\* defaults).
Params(fn) ==
    CASE fn = "execute_scip_command" ->
           <<"scip_exe_path", "input_model_path", "output_path", "solve_type">>
      [] fn = "execute_highs_command" ->
           <<"highs_exe_path", "input_model_path", "output_path">>
      [] fn = "solve_with_cuopt_server" ->
           <<"mps_file_path", "server_url", "time_limit", "batch_size">>

Required(fn) ==
    CASE fn = "execute_scip_command" -> Len(Params(fn))
      [] fn = "execute_highs_command" -> Len(Params(fn))
      [] fn = "solve_with_cuopt_server" -> Len(Params(fn)) - Len(<<"time_limit", "batch_size">>)

\* Python binds positional arguments to parameters and raises TypeError
\* when there are too many or too few.
Binds(fn, a) == Len(a) >= Required(fn) /\ Len(a) <= Len(Params(fn))

FirstPc(fn) ==
    CASE fn = "execute_scip_command" -> "scip_check"
      [] fn = "execute_highs_command" -> "highs_check"
      [] fn = "solve_with_cuopt_server" -> "cuopt_post"

\* The call fn(a) made from the driver; the run continues at `ret` when the
\* function returns.
Call(fn, a, ret) ==
    /\ calls' = Append(calls, [fn |-> fn, args |-> a])
    /\ IF Binds(fn, a)
       THEN /\ pc' = FirstPc(fn)
            /\ args' = a
            /\ returnTo' = ret
            /\ exc' = exc
       ELSE /\ pc' = "raised"
            /\ exc' = "TypeError"
            /\ UNCHANGED <<args, returnTo>>

CallsTo(fn) == SelectSeq(calls, LAMBDA c : c.fn = fn)

----------------------------------------------------------------------------
(* main                                                                    *)

Emit(msg) == out' = Append(out, msg)

\* What main reads and never writes: the command line and the configuration.
mainFrame == <<entry, command, input_file, output_file, cfgExists,
               cfgSections, cfgOptions, cfgValue>>

\* main, "Load Configuration": the try block and its except clause.
LoadConfig ==
    /\ pc = "main_load"
    /\ IF ConfigError = "none"
       THEN /\ pc' = "main_dispatch"
            /\ UNCHANGED <<out, exc>>
       ELSE IF ConfigError \in CaughtByMain
       THEN /\ Emit("Configuration Error")
            /\ pc' = "done"
            /\ exc' = exc
       ELSE /\ pc' = "raised"
            /\ exc' = ConfigError
            /\ out' = out
    /\ UNCHANGED <<serverVars, mainFrame, fs, args, returnTo, calls, procs,
                   reports, posts, resp>>

\* The arguments main passes on each branch of "Execute Command".
CuoptArgs == <<input_file, cuopt_url>>
\* Faulty variant: the solve-scip branch passes the HiGHS executable.
ScipSolveArgs_HighsExe == <<highs_exe, input_file, output_file, "solve">>
ScipSolveArgs == <<scip_exe, input_file, output_file, "solve">>
HighsSolveArgs == <<highs_exe, input_file, output_file, "solve">>
PresolveArgs == <<scip_exe, input_file, output_file, "presolve">>
\* Faulty variant: the chained solve is given the original input.
ChainedCuoptArgs_Input == <<input_file, cuopt_url>>
ChainedCuoptArgs == <<output_file, cuopt_url>>

SolveCuopt ==
    /\ pc = "main_dispatch"
    /\ command = "solve-cuopt"
    /\ Call("solve_with_cuopt_server", CuoptArgs, "done")
    /\ UNCHANGED <<serverVars, mainFrame, fs, procs, reports, posts, resp, out>>

SolveScip ==
    /\ pc = "main_dispatch"
    /\ command = "solve-scip"
    /\ Call("execute_scip_command", ScipSolveArgs, "done")
    /\ UNCHANGED <<serverVars, mainFrame, fs, procs, reports, posts, resp, out>>

SolveHighs ==
    /\ pc = "main_dispatch"
    /\ command = "solve-highs"
    /\ Call("execute_highs_command", HighsSolveArgs, "done")
    /\ UNCHANGED <<serverVars, mainFrame, fs, procs, reports, posts, resp, out>>

PresolveStep1 ==
    /\ pc = "main_dispatch"
    /\ command = "presolve-and-solve"
    /\ Emit("Step 1: Presolving with SCIP")
    /\ Call("execute_scip_command", PresolveArgs, "main_presolved")
    /\ UNCHANGED <<serverVars, mainFrame, fs, procs, reports, posts, resp>>

\* presolved_file.exists()
PresolvedExists == output_file \in fs

PresolveStep2 ==
    /\ pc = "main_presolved"
    /\ IF PresolvedExists
       THEN /\ Emit("Step 2: Solving with cuOpt")
            /\ Call("solve_with_cuopt_server", ChainedCuoptArgs, "done")
       ELSE /\ Emit("Presolving failed. Skipping cuOpt solve step.")
            /\ pc' = "done"
            /\ UNCHANGED <<args, returnTo, calls, exc>>
    /\ UNCHANGED <<serverVars, mainFrame, fs, procs, reports, posts, resp>>

----------------------------------------------------------------------------
(* execute_scip_command                                                    *)

Return == pc' = returnTo

Raise(e) == pc' = "raised" /\ exc' = e

\* The command scripts of command_map, as the lines written to the process.
command_map(input_model_path, output_path) ==
    [presolve |->
        << <<"read", input_model_path>>,
           <<"set limits nodes 0">>,
           <<"set presolving emphasis aggressive">>,
           <<"set presolving aggregation FALSE">>,
           <<"set presolving maxrounds -1">>,
           <<"set presolving maxrestarts -1">>,
           <<"presolve">>,
           <<"write transproblem", output_path>>,
           <<"quit">> >>,
     solve |->
        << <<"read", input_model_path>>,
           <<"optimize">>,
           <<"display solution">>,
           <<"write solution", output_path>>,
           <<"quit">> >>]

\* solve_type in command_map
ScipSupported(solve_type) ==
    solve_type \in DOMAIN command_map(<<>>, <<>>)

\* Faulty variant: the input model is not checked.
ScipCheckOutcome_NoInputCheck ==
    IF args[1] \notin fs THEN "exe_not_found"
    ELSE IF ~ScipSupported(args[4]) THEN "ValueError"
    ELSE "popen"

\* Faulty variant: the protocol name is checked before the two paths.
ScipCheckOutcome_TypeFirst ==
    IF ~ScipSupported(args[4]) THEN "ValueError"
    ELSE IF args[1] \notin fs THEN "exe_not_found"
    ELSE IF args[2] \notin fs THEN "input_not_found"
    ELSE "popen"

\* The preconditions and the protocol check, up to the Popen call: the
\* message printed and where the run goes.
ScipCheckOutcome ==
    IF args[1] \notin fs THEN "exe_not_found"
    ELSE IF args[2] \notin fs THEN "input_not_found"
    ELSE IF ~ScipSupported(args[4]) THEN "ValueError"
    ELSE "popen"

ScipCheck ==
    /\ pc = "scip_check"
    /\ CASE ScipCheckOutcome = "exe_not_found" ->
              Emit("Error: SCIP executable not found") /\ Return /\ exc' = exc
         [] ScipCheckOutcome = "input_not_found" ->
              Emit("Error: Input file not found") /\ Return /\ exc' = exc
         [] ScipCheckOutcome = "ValueError" ->
              Emit("Starting SCIP process") /\ Raise("ValueError")
         [] ScipCheckOutcome = "popen" ->
              Emit("Starting SCIP process") /\ pc' = "scip_popen" /\ exc' = exc
    /\ UNCHANGED <<serverVars, mainFrame, fs, args, returnTo, calls, procs, reports,
                   posts, resp>>

NewProcess(argv) ==
    [argv |-> argv, stdin |-> <<>>, exited |-> FALSE, returncode |-> 0,
     wrote |-> FALSE]

\* subprocess.Popen([str(scip_exe_path)], ...): the process starts, or the
\* operating system refuses to run the file and Popen raises OSError.
ScipPopen ==
    /\ pc = "scip_popen"
    /\ \E started \in BOOLEAN :
          IF started
          THEN /\ procs' = Append(procs, NewProcess(<<args[1]>>))
               /\ pc' = "scip_communicate"
               /\ exc' = exc
          ELSE /\ Raise("OSError")
               /\ procs' = procs
    /\ UNCHANGED <<serverVars, mainFrame, fs, args, returnTo, calls, reports, posts,
                   resp, out>>

\* The process reads `script` (empty when nothing is piped to it), may
\* write the file at `target`, and exits with code rc.
Exited(p, script, rc, wrote) ==
    [p EXCEPT !.stdin = script, !.exited = TRUE, !.returncode = rc,
              !.wrote = wrote]

\* process.communicate(scip_commands) and the two prints after it.
ScipCommunicate ==
    /\ pc = "scip_communicate"
    /\ \E rc \in ExitCodes, wrote \in BOOLEAN :
          /\ procs' = [procs EXCEPT ![Len(procs)] =
                          Exited(@, command_map(args[2], args[3])[args[4]],
                                 rc, wrote)]
          /\ fs' = IF wrote THEN fs \cup {args[3]} ELSE fs
    /\ Emit("SCIP process finished")
    /\ pc' = "scip_report"
    /\ UNCHANGED <<serverVars, mainFrame, args, returnTo, calls, reports, posts, resp,
                   exc>>

\* Faulty variant: success is decided by the output file alone.
ScipOutcome_FileOnly(returncode, present) ==
    IF present THEN "Success"
    ELSE IF returncode = 0 THEN "NoOutput"
    ELSE "Error"

\* The if/elif/else on process.returncode and output_path.exists().
ScipOutcome(returncode, present) ==
    IF returncode = 0 /\ present THEN "Success"
    ELSE IF returncode = 0 THEN "NoOutput"
    ELSE "Error"

ScipReport ==
    /\ pc = "scip_report"
    /\ LET rc == procs[Len(procs)].returncode
           present == args[3] \in fs
           msg == ScipOutcome(rc, present)
       IN /\ reports' = Append(reports,
                 [fn |-> "execute_scip_command", returncode |-> rc,
                  present |-> present, msg |-> msg])
          /\ Emit(msg)
    /\ Return
    /\ UNCHANGED <<serverVars, mainFrame, fs, args, returnTo, calls, procs, posts,
                   resp, exc>>

----------------------------------------------------------------------------
(* execute_highs_command                                                   *)

HighsCheckOutcome ==
    IF args[1] \notin fs THEN "exe_not_found"
    ELSE IF args[2] \notin fs THEN "input_not_found"
    ELSE "popen"

HighsCheck ==
    /\ pc = "highs_check"
    /\ CASE HighsCheckOutcome = "exe_not_found" ->
              Emit("Error: HiGHS executable not found") /\ Return
         [] HighsCheckOutcome = "input_not_found" ->
              Emit("Error: Input file not found") /\ Return
         [] HighsCheckOutcome = "popen" ->
              Emit("Starting HiGHS process") /\ pc' = "highs_popen"
    /\ UNCHANGED <<serverVars, mainFrame, fs, args, returnTo, calls, procs, reports,
                   posts, resp, exc>>

\* command = [str(highs_exe_path), str(input_model_path),
\*            f"--solution_file={output_path}"]
HighsCommand == <<args[1], args[2], <<"--solution_file=", args[3]>> >>

HighsPopen ==
    /\ pc = "highs_popen"
    /\ \E started \in BOOLEAN :
          IF started
          THEN /\ procs' = Append(procs, NewProcess(HighsCommand))
               /\ pc' = "highs_communicate"
               /\ exc' = exc
          ELSE /\ Raise("OSError")
               /\ procs' = procs
    /\ UNCHANGED <<serverVars, mainFrame, fs, args, returnTo, calls, reports, posts,
                   resp, out>>

HighsCommunicate ==
    /\ pc = "highs_communicate"
    /\ \E rc \in ExitCodes, wrote \in BOOLEAN :
          /\ procs' = [procs EXCEPT ![Len(procs)] = Exited(@, <<>>, rc, wrote)]
          /\ fs' = IF wrote THEN fs \cup {args[3]} ELSE fs
    /\ Emit("HiGHS process finished")
    /\ pc' = "highs_report"
    /\ UNCHANGED <<serverVars, mainFrame, args, returnTo, calls, reports, posts, resp,
                   exc>>

HighsOutcome(returncode, present) ==
    IF returncode = 0 /\ present THEN "Success"
    ELSE IF returncode = 0 THEN "NoOutput"
    ELSE "Error"

HighsReport ==
    /\ pc = "highs_report"
    /\ LET rc == procs[Len(procs)].returncode
           present == args[3] \in fs
           msg == HighsOutcome(rc, present)
       IN /\ reports' = Append(reports,
                 [fn |-> "execute_highs_command", returncode |-> rc,
                  present |-> present, msg |-> msg])
          /\ Emit(msg)
    /\ Return
    /\ UNCHANGED <<serverVars, mainFrame, fs, args, returnTo, calls, procs, posts,
                   resp, exc>>

----------------------------------------------------------------------------
(* solve_with_cuopt_server                                                 *)

DefaultTimeLimit == 60
DefaultBatchSize == 1
TimeoutBuffer == 30

\* Path(mps_file_path).name
Name(path) == path[Len(path)]

time_limit == IF Len(args) >= 3 THEN args[3] ELSE DefaultTimeLimit
batch_size == IF Len(args) >= 4 THEN args[4] ELSE DefaultBatchSize

\* The request requests.post sends.
PostRequest ==
    [url |-> args[2],
     json |-> [file_name |-> Name(args[1]), time_limit |-> time_limit,
               batch_size |-> batch_size],
     timeout |-> time_limit + TimeoutBuffer]

StatusCodes == {200, 300, 404, 500}

\* The class of the exception response.json() raises on a body that is not
\* JSON: requests' own JSONDecodeError (a RequestException as well as a
\* json.JSONDecodeError) or the standard library's, by requests version.
DecodeErrors == {"requests.JSONDecodeError", "json.JSONDecodeError"}

NoResponse ==
    [raised |-> "none", status |-> 0, valid |-> FALSE, decodeError |-> "none"]

\* What a POST can come back with: the transport raises, or a response
\* with a status code and a body that is valid JSON or not.
Responses ==
    {[NoResponse EXCEPT !.raised = e] : e \in {"ConnectionError", "Timeout"}}
    \cup {[NoResponse EXCEPT !.status = c, !.valid = TRUE] : c \in StatusCodes}
    \cup {[NoResponse EXCEPT !.status = c, !.decodeError = d] :
             c \in StatusCodes, d \in DecodeErrors}

\* The print before the try block and the requests.post call.
CuoptPost ==
    /\ pc = "cuopt_post"
    /\ Emit("Sending to cuOpt server")
    /\ posts' = Append(posts, PostRequest)
    /\ \E r \in Responses : resp' = r
    /\ pc' = "cuopt_handle"
    /\ UNCHANGED <<serverVars, mainFrame, fs, args, returnTo, calls, procs, reports, exc>>

\* response.raise_for_status()
RaisesForStatus(status) == status >= 400 /\ status < 600

IsRequestException(e) ==
    e \in {"ConnectionError", "Timeout", "HTTPError", "requests.JSONDecodeError"}

IsJSONDecodeError(e) ==
    e \in {"requests.JSONDecodeError", "json.JSONDecodeError"}

\* The exception raised inside the try block, "none" when it completes.
TryException ==
    IF resp.raised # "none" THEN resp.raised
    ELSE IF RaisesForStatus(resp.status) THEN "HTTPError"
    ELSE IF ~resp.valid THEN resp.decodeError
    ELSE "none"

\* What the try block printed before it completed or raised.
TryPrinted ==
    IF resp.raised # "none" \/ RaisesForStatus(resp.status) THEN <<>>
    ELSE IF ~resp.valid THEN <<"Status Code", "Response JSON:">>
    ELSE <<"Status Code", "Response JSON:", "json">>

\* The except clauses, in order: the message printed, or "propagate".
CuoptHandler(e) ==
    IF IsRequestException(e) THEN <<"communication error">>
    ELSE IF IsJSONDecodeError(e) THEN <<"Response was not valid JSON:", "text">>
    ELSE <<>>

\* Faulty variant: a communication error is followed by a second POST.
CuoptHandle_RetryOnError ==
    /\ pc = "cuopt_handle"
    /\ IF TryException = "none"
       THEN /\ out' = out \o TryPrinted
            /\ Return
            /\ exc' = exc
       ELSE IF IsRequestException(TryException) /\ Len(posts) < 2
       THEN /\ out' = out \o TryPrinted \o CuoptHandler(TryException)
            /\ pc' = "cuopt_post"
            /\ exc' = exc
       ELSE IF CuoptHandler(TryException) # <<>>
       THEN /\ out' = out \o TryPrinted \o CuoptHandler(TryException)
            /\ Return
            /\ exc' = exc
       ELSE /\ out' = out \o TryPrinted
            /\ Raise(TryException)
    /\ UNCHANGED <<serverVars, mainFrame, fs, args, returnTo, calls, procs, reports,
                   posts, resp>>

CuoptHandle ==
    /\ pc = "cuopt_handle"
    /\ IF TryException = "none"
       THEN /\ out' = out \o TryPrinted
            /\ Return
            /\ exc' = exc
       ELSE IF CuoptHandler(TryException) # <<>>
       THEN /\ out' = out \o TryPrinted \o CuoptHandler(TryException)
            /\ Return
            /\ exc' = exc
       ELSE /\ out' = out \o TryPrinted
            /\ Raise(TryException)
    /\ UNCHANGED <<serverVars, mainFrame, fs, args, returnTo, calls, procs, reports,
                   posts, resp>>

----------------------------------------------------------------------------
(* The runs of the driver                                                  *)

\* A configuration file: its sections, the options in them, the values.
ConfigFiles ==
    {c \in [exists : BOOLEAN, sections : SUBSET Sections,
            options : SUBSET RequiredOptions] :
        /\ \A o \in c.options : o[1] \in c.sections
        /\ ~c.exists => c.sections = {}}

ConfigValues ==
    {[o \in RequiredOptions |->
         CASE o[2] = "scip_solver_exe" -> s
           [] o[2] = "highs_solver_exe" -> h
           [] o[2] = "server_url" -> ServerUrl] :
     s \in ExePaths, h \in ExePaths}

NoConfig == CHOOSE v \in ConfigValues : TRUE

InitLogs ==
    /\ procs = <<>>
    /\ reports = <<>>
    /\ posts = <<>>
    /\ resp = NoResponse
    /\ out = <<>>
    /\ exc = "none"
    /\ returnTo = "done"

\* python Solve.py <command> <input_file> [<output_file>] [--config PATH]
InitMain ==
    /\ entry = "main"
    /\ command \in Commands
    /\ input_file \in ModelPaths
    /\ output_file \in (IF command = "solve-cuopt" THEN {<<>>} ELSE ModelPaths)
    /\ \E c \in ConfigFiles :
          /\ cfgExists = c.exists
          /\ cfgSections = c.sections
          /\ cfgOptions = c.options
    /\ cfgValue \in ConfigValues
    /\ fs \in SUBSET (ExePaths \cup ModelPaths)
    /\ pc = "main_load"
    /\ args = <<>>
    /\ calls = <<>>
    /\ InitLogs

\* The arguments of a direct call of a solver function (as the integration
\* tests make them).
DirectArgs(fn) ==
    CASE fn = "execute_scip_command" ->
           {<<e, i, o, t>> : e \in ExePaths, i \in ModelPaths,
                             o \in ModelPaths, t \in SolveTypes}
      [] fn = "execute_highs_command" ->
           {<<e, i, o>> : e \in ExePaths, i \in ModelPaths, o \in ModelPaths}
      [] fn = "solve_with_cuopt_server" ->
           {<<i, ServerUrl>> : i \in ModelPaths}

InitDirect ==
    /\ entry \in {"execute_scip_command", "execute_highs_command",
                  "solve_with_cuopt_server"}
    /\ command = "none"
    /\ input_file = <<>>
    /\ output_file = <<>>
    /\ cfgExists = FALSE
    /\ cfgSections = {}
    /\ cfgOptions = {}
    /\ cfgValue = NoConfig
    /\ fs \in SUBSET (ExePaths \cup ModelPaths)
    /\ pc = FirstPc(entry)
    /\ args \in DirectArgs(entry)
    /\ calls = <<[fn |-> entry, args |-> args]>>
    /\ InitLogs

----------------------------------------------------------------------------
(* The solve service: path handling                                        *)

\* Longest file_name considered, in '/'-separated segments.
MaxSegs == 3

\* Largest batch_size considered.
MaxBatch == 2

base_directory == <<"/", "a", "p", "p">>

StartsWith(s, prefix) ==
    Len(s) >= Len(prefix) /\ SubSeq(s, 1, Len(prefix)) = prefix

\* os.path.join(a, b) on POSIX.
os_path_join(a, b) ==
    IF StartsWith(b, <<"/">>) THEN b
    ELSE IF a = <<>> \/ a[Len(a)] = "/" THEN a \o b
    ELSE a \o <<"/">> \o b

\* path.split('/')
RECURSIVE Split(_)
Split(s) ==
    IF s = <<>> THEN << <<>> >>
    ELSE LET rest == Split(Tail(s))
         IN IF Head(s) = "/" THEN << <<>> >> \o rest
            ELSE << <<Head(s)>> \o Head(rest) >> \o Tail(rest)

\* '/'.join(comps)
RECURSIVE JoinSlash(_)
JoinSlash(comps) ==
    IF comps = <<>> THEN <<>>
    ELSE IF Len(comps) = 1 THEN Head(comps)
    ELSE Head(comps) \o <<"/">> \o JoinSlash(Tail(comps))

DotDot == <<".", ".">>

\* The loop of posixpath.normpath over the components.
RECURSIVE NormComps(_, _, _)
NormComps(comps, new_comps, initial_slashes) ==
    IF comps = <<>> THEN new_comps
    ELSE LET comp == Head(comps)
             rest == Tail(comps)
         IN IF comp \in {<<>>, <<".">>}
            THEN NormComps(rest, new_comps, initial_slashes)
            ELSE IF \/ comp # DotDot
                    \/ (initial_slashes = 0 /\ new_comps = <<>>)
                    \/ (new_comps # <<>> /\ new_comps[Len(new_comps)] = DotDot)
            THEN NormComps(rest, Append(new_comps, comp), initial_slashes)
            ELSE IF new_comps # <<>>
            THEN NormComps(rest, SubSeq(new_comps, 1, Len(new_comps) - 1),
                           initial_slashes)
            ELSE NormComps(rest, new_comps, initial_slashes)

InitialSlashes(path) ==
    IF ~StartsWith(path, <<"/">>) THEN 0
    ELSE IF StartsWith(path, <<"/", "/">>) /\ ~StartsWith(path, <<"/", "/", "/">>)
    THEN 2
    ELSE 1

\* os.path.normpath(path) on POSIX.
os_path_normpath(path) ==
    IF path = <<>> THEN <<".">>
    ELSE LET n == InitialSlashes(path)
             body == JoinSlash(NormComps(Split(path), <<>>, n))
             p == [i \in 1..n |-> "/"] \o body
         IN IF p = <<>> THEN <<".">> ELSE p

\* file_path = os.path.normpath(os.path.join(base_directory, request.file_name))
FilePath(file_name) == os_path_normpath(os_path_join(base_directory, file_name))

\* The security check: file_path.startswith(base_directory).
PathAllowed(path) == StartsWith(path, base_directory)

\* The segments a requested file_name is made of.
SegChoices ==
    {<<>>, <<".">>, DotDot, <<"a", "p", "p">>, <<"a", "p", "p", "_", "o">>,
     <<"f">>}

FileNames ==
    {JoinSlash(segs) :
        segs \in UNION {[1..n -> SegChoices] : n \in 1..MaxSegs}}

\* The files that may exist in the container besides the base directory.
ServerFiles ==
    {base_directory \o <<"/", "f">>,
     <<"/", "a", "p", "p", "_", "o", "/", "f">>}

----------------------------------------------------------------------------
(* The solve service: the result object and its reshaping                  *)

\* An attribute name is <<prefix, rest>>: attr_name.startswith('get_') reads
\* the prefix and attr_name[4:] is the rest.
Getters ==
    {<<"get_", "status">>, <<"get_", "objective_value">>,
     <<"get_", "dual_vector">>}

\* An attribute dir() lists that is no getter.
NonGetter == <<"", "solve_time">>

ValueTypes == {"str", "float", "ndarray", "object"}

\* isinstance(value, (str, int, float, bool, list, dict, type(None)))
JsonTypes == {"str", "int", "float", "bool", "list", "dict", "NoneType"}

\* An attribute: not callable, or a method that returns a value of some
\* type or raises.
Attributes ==
    {[callable |-> FALSE, raises |-> "none", type |-> "float"]}
    \cup {[callable |-> TRUE, raises |-> "none", type |-> t] : t \in ValueTypes}
    \cup {[callable |-> TRUE, raises |-> e, type |-> "NoneType"] :
             e \in {"AttributeError", "TypeError"}}

\* The objects BatchSolve may return as batch_solution[0].
ResultObjects ==
    UNION {
        {[n \in S \cup {NonGetter} |->
             IF n = NonGetter
             THEN [callable |-> TRUE, raises |-> "none", type |-> "float"]
             ELSE f[n]] : f \in [S -> Attributes]}
        : S \in SUBSET Getters}

\* The solutions of a batch after the first: an object whose only getter
\* returns a status string.
OtherResults ==
    {r \in ResultObjects :
        /\ DOMAIN r = {NonGetter, <<"get_", "status">>}
        /\ r[<<"get_", "status">>] =
              [callable |-> TRUE, raises |-> "none", type |-> "str"]}

NoResult == [n \in {} |-> [callable |-> FALSE, raises |-> "none", type |-> "float"]]

\* The value method() returns for attribute n of object obj.
ValueOf(obj, n) == [type |-> obj[n].type, data |-> <<n[2]>>]

\* The attributes the reshaping loop calls: named get_..., and callable.
CalledGetters(obj) ==
    {n \in DOMAIN obj : n[1] = "get_" /\ obj[n].callable}

\* What the isinstance chain stores for a value.
Stored(value) ==
    IF value.type \in JsonTypes THEN value
    ELSE IF value.type = "ndarray"
    THEN [type |-> "list", data |-> <<"tolist">> \o value.data]
    ELSE [type |-> "str", data |-> <<"str">> \o value.data]

\* The exception classes the loop's except clause names.
CaughtByLoop == {"AttributeError"}

\* A getter whose exception the loop does not catch.
LoopRaises(obj) ==
    \E n \in CalledGetters(obj) :
        obj[n].raises # "none" /\ obj[n].raises \notin CaughtByLoop

\* full_result_dict after the loop.
full_result_dict(obj) ==
    LET kept == {n \in CalledGetters(obj) : obj[n].raises = "none"}
    IN [k \in {n[2] : n \in kept} |->
           Stored(ValueOf(obj, CHOOSE n \in kept : n[2] = k))]

Unknown == [type |-> "str", data |-> <<"unknown">>]
None == [type |-> "NoneType", data |-> <<>>]

\* dict.pop(key, default): the value.
Pop(d, key, default) == IF key \in DOMAIN d THEN d[key] ELSE default

\* dict.pop(key, default): the dictionary left.
Without(d, key) == [k \in DOMAIN d \ {key} |-> d[k]]

\* The field types SolverResponse declares: status: str,
\* objective_value: Optional[float], details: Dict[str, Any].
Validates(status, objective_value) ==
    /\ status.type = "str"
    /\ objective_value.type \in {"float", "int", "NoneType"}

NoDetails == [k \in {} |-> None]

ErrorReply(code) ==
    [code |-> code, status |-> None, objective_value |-> None,
     details |-> NoDetails]

\* Faulty variant: objective_value is read with get() and stays in details.
SolverResponse_KeepObjective(d) ==
    [code |-> 200,
     status |-> Pop(d, "status", Unknown),
     objective_value |-> Pop(Without(d, "status"), "objective_value", None),
     details |-> Without(d, "status")]

\* SolverResponse(status=..., objective_value=..., details=...)
SolverResponse(d) ==
    [code |-> 200,
     status |-> Pop(d, "status", Unknown),
     objective_value |-> Pop(Without(d, "status"), "objective_value", None),
     details |-> Without(Without(d, "status"), "objective_value")]

----------------------------------------------------------------------------
(* The solve service: solve_from_request                                   *)

Finish(r) == reply' = r /\ spc' = "done"

\* The security check on the joined, normalised path.
CheckPath ==
    /\ spc = "check_path"
    /\ file_path' = FilePath(request.file_name)
    /\ IF ~PathAllowed(file_path')
       THEN Finish(ErrorReply(400))
       ELSE spc' = "check_exists" /\ reply' = reply
    /\ UNCHANGED <<driverVars, request, sfs, parsed, solves, batch_solution,
                   result>>

\* Faulty variant: the existence check is skipped.
CheckExists_NoCheck ==
    /\ spc = "check_exists"
    /\ spc' = "parse"
    /\ reply' = reply
    /\ UNCHANGED <<driverVars, request, sfs, file_path, parsed, solves,
                   batch_solution, result>>

\* os.path.exists(file_path)
CheckExists ==
    /\ spc = "check_exists"
    /\ IF file_path \notin sfs
       THEN Finish(ErrorReply(404))
       ELSE spc' = "parse" /\ reply' = reply
    /\ UNCHANGED <<driverVars, request, sfs, file_path, parsed, solves,
                   batch_solution, result>>

\* One iteration of the loop over range(request.batch_size): ParseMps
\* returns a data model or raises.
ParseMps ==
    /\ spc = "parse"
    /\ Len(parsed) < request.batch_size
    /\ parsed' = Append(parsed, file_path)
    /\ \E ok \in BOOLEAN :
          IF ok THEN spc' = "parse" /\ reply' = reply
          ELSE Finish(ErrorReply(500))
    /\ UNCHANGED <<driverVars, request, sfs, file_path, solves,
                   batch_solution, result>>

\* The batches BatchSolve may return for n data models: one solution per
\* data model.
Batches(n) ==
    {<<r>> \o rest : r \in ResultObjects, rest \in [1..(n - 1) -> OtherResults]}

\* The settings and the BatchSolve call, after the loop; result_obj is
\* batch_solution[0]. The library raises, or returns one solution per
\* data model (so none for an empty batch, and indexing raises).
BatchSolve ==
    /\ spc = "parse"
    /\ Len(parsed) >= request.batch_size
    /\ solves' = Append(solves,
           [models |-> parsed, time_limit |-> <<"str", request.time_limit>>,
            method |-> "PDLP"])
    /\ \/ /\ Finish(ErrorReply(500))
          /\ UNCHANGED <<batch_solution, result>>
       \/ /\ parsed # <<>>
          /\ batch_solution' \in Batches(Len(parsed))
          /\ result' = batch_solution'[1]
          /\ spc' = "reshape"
          /\ reply' = reply
    /\ UNCHANGED <<driverVars, request, sfs, file_path, parsed>>

\* The reflection loop and the construction of the response.
Reshape ==
    /\ spc = "reshape"
    /\ IF LoopRaises(result)
       THEN Finish(ErrorReply(500))
       ELSE LET r == SolverResponse(full_result_dict(result))
            IN IF Validates(r.status, r.objective_value)
               THEN Finish(r)
               ELSE Finish(ErrorReply(500))
    /\ UNCHANGED <<driverVars, request, sfs, file_path, parsed, solves,
                   batch_solution, result>>

----------------------------------------------------------------------------
(* Specifications                                                          *)

ServerIdle ==
    /\ request = [file_name |-> <<>>, time_limit |-> DefaultTimeLimit,
                  batch_size |-> DefaultBatchSize]
    /\ sfs = {}
    /\ file_path = <<>>
    /\ spc = "idle"
    /\ parsed = <<>>
    /\ solves = <<>>
    /\ batch_solution = <<>>
    /\ result = NoResult
    /\ reply = ErrorReply(0)

DriverIdle ==
    /\ entry = "none"
    /\ command = "none"
    /\ input_file = <<>>
    /\ output_file = <<>>
    /\ cfgExists = FALSE
    /\ cfgSections = {}
    /\ cfgOptions = {}
    /\ cfgValue = NoConfig
    /\ fs = {}
    /\ pc = "idle"
    /\ args = <<>>
    /\ calls = <<>>
    /\ InitLogs

Init == (InitMain \/ InitDirect) /\ ServerIdle

Next ==
    \/ LoadConfig
    \/ SolveCuopt
    \/ SolveScip
    \/ SolveHighs
    \/ PresolveStep1
    \/ PresolveStep2
    \/ ScipCheck
    \/ ScipPopen
    \/ ScipCommunicate
    \/ ScipReport
    \/ HighsCheck
    \/ HighsPopen
    \/ HighsCommunicate
    \/ HighsReport
    \/ CuoptPost
    \/ CuoptHandle

Spec == Init /\ [][Next]_vars

\* POST /solve_mps with an MPSRequest body.
InitServer ==
    /\ DriverIdle
    /\ request \in [file_name : FileNames, time_limit : {DefaultTimeLimit},
                    batch_size : 0..MaxBatch]
    /\ sfs \in {{base_directory} \cup S : S \in SUBSET ServerFiles}
    /\ file_path = <<>>
    /\ spc = "check_path"
    /\ parsed = <<>>
    /\ solves = <<>>
    /\ batch_solution = <<>>
    /\ result = NoResult
    /\ reply = ErrorReply(0)

NextServer ==
    \/ CheckPath
    \/ CheckExists
    \/ ParseMps
    \/ BatchSolve
    \/ Reshape

SpecServer == InitServer /\ [][NextServer]_vars

----------------------------------------------------------------------------
(* Properties of the driver (checked under Spec)                           *)

SCIP == "execute_scip_command"
HIGHS == "execute_highs_command"
CUOPT == "solve_with_cuopt_server"

\* The configuration file is missing, or lacks one of the three required keys.
ConfigInvalid ==
    ~cfgExists \/ \E o \in RequiredOptions : o \notin cfgOptions

Terminated == pc \in {"done", "raised"}

\* C1: under any subcommand, when the configuration file is missing or a
\* required key is missing, main prints exactly the one "Configuration
\* Error" message and returns: no solver function is called, no process is
\* started, no POST is issued and no exception leaves main.
C1_ConfigErrorAborts ==
    (entry = "main" /\ ConfigInvalid) =>
        /\ calls = <<>>
        /\ procs = <<>>
        /\ posts = <<>>
        /\ exc = "none"
        /\ pc \in {"main_load", "done"}
        /\ pc = "main_load" => out = <<>>
        /\ pc = "done" => out = <<"Configuration Error">>

\* A run that ended on a missing key of a section that is there.
C1_Witness ==
    /\ entry = "main"
    /\ cfgExists
    /\ "Paths" \in cfgSections
    /\ <<"Paths", "highs_solver_exe">> \notin cfgOptions
    /\ <<"Paths", "scip_solver_exe">> \in cfgOptions
    /\ pc = "done"
    /\ out = <<"Configuration Error">>

\* The run is past the existence check that follows the presolve step.
AfterPresolveCheck ==
    calls # <<>> /\ pc \in {"cuopt_post", "cuopt_handle", "done"}

\* C2: in presolve-and-solve the first call is the SCIP runner with
\* (scip_exe, input, output, "presolve"), made once; once it has returned,
\* the remote client is called iff a file exists at the output path, once,
\* with (output, cuopt_url) and, the two paths differing, not with the
\* input path; when no file exists the skip message is printed and no POST
\* is issued.
C2_PresolveThenSolveOutput ==
    (entry = "main" /\ command = "presolve-and-solve") =>
        /\ calls # <<>> =>
              calls[1] = [fn |-> SCIP,
                          args |-> <<scip_exe, input_file, output_file, "presolve">>]
        /\ Len(CallsTo(SCIP)) <= 1
        /\ CallsTo(HIGHS) = <<>>
        /\ Len(CallsTo(CUOPT)) <= 1
        /\ \A i \in DOMAIN calls :
              calls[i].fn = CUOPT =>
                 /\ i = 2
                 /\ calls[i].args = <<output_file, cuopt_url>>
                 /\ input_file # output_file => calls[i].args[1] # input_file
        /\ pc \in {"scip_check", "scip_popen", "scip_communicate",
                   "scip_report", "main_presolved"} => CallsTo(CUOPT) = <<>>
        /\ AfterPresolveCheck =>
              /\ Len(CallsTo(CUOPT)) = 1 <=> output_file \in fs
              /\ output_file \notin fs =>
                    /\ posts = <<>>
                    /\ out[Len(out)] = "Presolving failed. Skipping cuOpt solve step."

\* The presolve wrote the output file, which differs from the input, and
\* the chained solve was made and has returned.
C2_Witness ==
    /\ entry = "main"
    /\ command = "presolve-and-solve"
    /\ input_file # output_file
    /\ pc = "done"
    /\ Len(procs) = 1
    /\ procs[1].wrote
    /\ Len(CallsTo(CUOPT)) = 1
    /\ Len(posts) = 1

\* C3 (as claimed): in presolve-and-solve, when the SCIP process exited
\* with a nonzero code, or exited without writing the output file, the
\* remote client is never called in that run. Stated for an output path
\* that differs from the input path, the claim's weakest reading.
C3_FailedPresolveStops ==
    (/\ entry = "main"
     /\ command = "presolve-and-solve"
     /\ input_file # output_file
     /\ procs # <<>>
     /\ procs[1].exited
     /\ (procs[1].returncode # 0 \/ ~procs[1].wrote))
    => CallsTo(CUOPT) = <<>>

\* C4 (as claimed): solve-highs with a valid configuration, an existing
\* executable and an existing input calls the HiGHS runner with
\* (highs_exe, input, output); unless the operating system refuses to run
\* the executable, one process is started with the input path and the
\* solution-file flag, its outcome is reported and nothing is raised.
C4_SolveHighsRuns ==
    (/\ entry = "main"
     /\ command = "solve-highs"
     /\ ~ConfigInvalid
     /\ highs_exe \in fs
     /\ input_file \in fs
     /\ Terminated)
    => /\ Len(calls) = 1
       /\ calls[1].fn = HIGHS
       /\ Len(calls[1].args) = Len(<<highs_exe, input_file, output_file>>)
       /\ exc # "OSError" =>
             /\ exc = "none"
             /\ Len(procs) = 1
             /\ procs[1].argv =
                   <<highs_exe, input_file, <<"--solution_file=", output_file>> >>
             /\ Len(reports) = 1

\* C5: solve-scip with a valid configuration calls the SCIP runner once,
\* with (scip_exe of the configuration, input, output, "solve"), and calls
\* neither the HiGHS runner nor the remote client; the only process started
\* is scip_exe and no POST is issued.
C5_SolveScipPassesThrough ==
    (entry = "main" /\ command = "solve-scip" /\ ~ConfigInvalid) =>
        /\ pc \in {"main_load", "main_dispatch"} => calls = <<>>
        /\ pc \notin {"main_load", "main_dispatch"} =>
              calls = << [fn |-> SCIP,
                          args |-> <<cfgValue[<<"Paths", "scip_solver_exe">>],
                                     input_file, output_file, "solve">>] >>
        /\ posts = <<>>
        /\ \A i \in DOMAIN procs :
              procs[i].argv = <<cfgValue[<<"Paths", "scip_solver_exe">>]>>

\* A finished solve-scip run whose two configured executables differ and
\* whose two paths differ.
C5_Witness ==
    /\ entry = "main"
    /\ command = "solve-scip"
    /\ pc = "done"
    /\ scip_exe # highs_exe
    /\ input_file # output_file
    /\ Len(calls) = 1
    /\ Len(reports) = 1

\* The pc at which each runner checks its preconditions.
RunnerCheckPcs == {"scip_check", "highs_check"}

\* What a runner prints when its executable is missing.
ExeNotFound ==
    IF pc = "scip_check" THEN "Error: SCIP executable not found"
    ELSE "Error: HiGHS executable not found"

\* C8: a call of either runner whose executable path or input model path
\* does not exist prints the message naming what is missing and returns to
\* its caller: it starts no process, reports no outcome, writes no file and
\* raises nothing.
C8_MissingFileNoProcess ==
    [][(pc \in RunnerCheckPcs /\ (args[1] \notin fs \/ args[2] \notin fs)) =>
          /\ pc' = returnTo
          /\ exc' = "none"
          /\ procs' = procs
          /\ reports' = reports
          /\ fs' = fs
          /\ out' = Append(out, IF args[1] \notin fs THEN ExeNotFound
                                ELSE "Error: Input file not found")]_vars

\* The HiGHS runner returned because its input model is missing although
\* its executable exists.
C8_Witness ==
    /\ entry = HIGHS
    /\ args[1] \in fs
    /\ args[2] \notin fs
    /\ pc = "done"
    /\ out = <<"Error: Input file not found">>
    /\ procs = <<>>

\* A direct call of the SCIP runner with a protocol name that is neither
\* "presolve" nor "solve", past its checks.
UnsupportedCallChecked ==
    /\ entry = SCIP
    /\ args[4] \notin {"presolve", "solve"}
    /\ pc # "scip_check"

\* C9 (as claimed): every call of the SCIP runner with a protocol name
\* other than "presolve" or "solve" fails with the unsupported-solve_type
\* error and starts no process.
C9_UnsupportedAlwaysFails ==
    UnsupportedCallChecked =>
        /\ pc = "raised"
        /\ exc = "ValueError"
        /\ procs = <<>>

\* C9 (amended): a call of the SCIP runner with a protocol name other than
\* "presolve" or "solve" starts no process; it fails with the
\* unsupported-solve_type error when the executable and the input model
\* both exist, and otherwise prints the missing-file message and returns.
C9_UnsupportedNoProcess ==
    UnsupportedCallChecked =>
        /\ procs = <<>>
        /\ posts = <<>>
        /\ IF args[1] \in fs /\ args[2] \in fs
           THEN pc = "raised" /\ exc = "ValueError"
           ELSE /\ pc = "done"
                /\ exc = "none"
                /\ out \in {<<"Error: SCIP executable not found">>,
                            <<"Error: Input file not found">>}

\* The unsupported protocol name was rejected with the error.
C9_Witness ==
    /\ UnsupportedCallChecked
    /\ args[1] \in fs
    /\ args[2] \in fs
    /\ exc = "ValueError"

\* The pcs at which a runner has a process it has not yet reported on.
RunnerBusyPcs ==
    {"scip_communicate", "scip_report", "highs_communicate", "highs_report"}

\* C10: every outcome a runner reports is fixed by the exit code and the
\* presence of the output file at that moment: exit code 0 with the file
\* gives success, exit code 0 without it gives "no output", any other exit
\* code gives failure whether or not the file exists. Every process a
\* runner started is reported on by the time the runner is left, and no
\* exception is raised once the process has started.
C10_OutcomeByExitAndFile ==
    /\ \A i \in DOMAIN reports :
          LET r == reports[i]
          IN /\ r.returncode = procs[i].returncode
             /\ (r.returncode = 0 /\ r.present) => r.msg = "Success"
             /\ (r.returncode = 0 /\ ~r.present) => r.msg = "NoOutput"
             /\ r.returncode # 0 => r.msg = "Error"
    /\ procs # <<>> => exc = "none"
    /\ Len(reports) = IF pc \in RunnerBusyPcs THEN Len(procs) - 1 ELSE Len(procs)
    /\ pc \notin RunnerBusyPcs => \A i \in DOMAIN procs : procs[i].exited

\* The HiGHS runner reported failure for a nonzero exit code although the
\* output file exists.
C10_Witness ==
    /\ entry = HIGHS
    /\ pc = "done"
    /\ Len(reports) = 1
    /\ reports[1].returncode # 0
    /\ reports[1].present
    /\ reports[1].msg = "Error"

\* A response the client got back, by class of failure: the transport
\* raised or the status is an error status (4xx or 5xx); or the status is
\* 2xx and the body is not valid JSON.
TransportFailure(r) ==
    r.raised # "none" \/ (r.status >= 400 /\ r.status <= 599)

DecodeFailure(r) ==
    r.raised = "none" /\ r.status >= 200 /\ r.status <= 299 /\ ~r.valid

\* The client has been called and the run is over.
ClientFinished == posts # <<>> /\ Terminated

\* C11 (as claimed): the client reports a network failure, a timeout or an
\* error status as a communication error, and a 2xx response whose body is
\* not valid JSON as a decode failure ("not valid JSON" and the raw body),
\* never as a communication error; it raises in neither case. The error
\* statuses are taken to be 4xx and 5xx, the claim's weakest reading.
C11_DecodeDistinctFromTransport ==
    ClientFinished =>
        /\ (TransportFailure(resp) \/ DecodeFailure(resp)) => exc = "none"
        /\ TransportFailure(resp) => out[Len(out)] = "communication error"
        /\ DecodeFailure(resp) =>
              /\ Len(out) >= 2
              /\ SubSeq(out, Len(out) - 1, Len(out)) =
                    <<"Response was not valid JSON:", "text">>
              /\ \A i \in DOMAIN out : out[i] # "communication error"

\* The calls whose arguments bound to the function's parameters, so that
\* its body ran.
Entered(fns) == SelectSeq(calls, LAMBDA c : c.fn \in fns /\ Binds(c.fn, c.args))

RunnerWaitPcs == {"scip_communicate", "highs_communicate"}

\* C13: nothing is retried. Each call of the remote client issues exactly
\* one POST, to the URL it was given, and each runner call starts at most
\* one process, whatever the outcome; a whole run starts at most one
\* process and issues at most one POST; and a process has exited by the
\* time the runner stops waiting for it, before the runner reports and
\* returns.
C13_NothingRetried ==
    /\ Len(posts) = IF pc = "cuopt_post" THEN Len(Entered({CUOPT})) - 1
                    ELSE Len(Entered({CUOPT}))
    /\ \A i \in DOMAIN posts : posts[i].url = Entered({CUOPT})[i].args[2]
    /\ Len(procs) <= Len(Entered({SCIP, HIGHS}))
    /\ Len(procs) <= 1
    /\ Len(posts) <= 1
    /\ pc \notin RunnerWaitPcs => \A i \in DOMAIN procs : procs[i].exited

\* A presolve-and-solve run of the dispatcher in which both stages failed:
\* the one SCIP process exited with a nonzero code, the one POST timed out,
\* and the run ended without a second attempt at either.
C13_Witness ==
    /\ entry = "main"
    /\ pc = "done"
    /\ Len(procs) = 1
    /\ procs[1].returncode # 0
    /\ Len(posts) = 1
    /\ resp.raised = "Timeout"
    /\ out[Len(out)] = "communication error"

----------------------------------------------------------------------------
(* Properties of the solve service (checked under SpecServer)              *)

\* A normalised path is the base directory itself or a path below it.
InsideBase(path) ==
    path = base_directory \/ StartsWith(path, base_directory \o <<"/">>)

\* C6 (as claimed): a request whose file_name, joined to the base
\* directory and normalised, is neither the base directory nor below it is
\* answered 400, and neither the parser nor the solver is called for it.
C6_OutsideBaseRejected ==
    ~InsideBase(FilePath(request.file_name)) =>
        /\ spc \in {"check_path", "done"}
        /\ spc = "done" => reply.code = 400
        /\ parsed = <<>>
        /\ solves = <<>>

\* The fields the result object exposes through a getter.
ExposedFields == {n[2] : n \in {a \in DOMAIN result : a[1] = "get_" /\ result[a].callable}}

\* The getter of a field, and the value it returns.
GetterOf(field) == <<"get_", field>>
Returned(field) == [type |-> result[GetterOf(field)].type, data |-> <<field>>]

\* The string representation of a value, and a numpy array as a list.
StrOf(value) == [type |-> "str", data |-> <<"str">> \o value.data]
ListOf(value) == [type |-> "list", data |-> <<"tolist">> \o value.data]

TopLevel == {"status", "objective_value"}

\* C7 (as claimed): in a SolveResponse, details holds exactly the fields
\* the result exposes through a getter other than status and
\* objective_value, none dropped; a JSON-primitive value is kept as it is
\* and any other value appears as its string representation.
C7_AllFieldsInDetails ==
    reply.code = 200 =>
        /\ DOMAIN reply.details = ExposedFields \ TopLevel
        /\ \A k \in DOMAIN reply.details :
              reply.details[k] =
                  IF Returned(k).type \in JsonTypes THEN Returned(k)
                  ELSE StrOf(Returned(k))

\* The fields whose getter returns a value (does not raise).
ReturnedFields == {k \in ExposedFields : result[GetterOf(k)].raises = "none"}

\* How the service renders a returned value.
Rendered(value) ==
    IF value.type \in JsonTypes THEN value
    ELSE IF value.type = "ndarray" THEN ListOf(value)
    ELSE StrOf(value)

\* C7 (amended): in a SolveResponse, status and objective_value are
\* top-level fields, taken from the result when its getter returns them
\* ("unknown" and null otherwise), and details holds exactly the other
\* fields whose getter returns a value, none of them named status or
\* objective_value: a JSON-primitive value is kept as it is, a numpy array
\* appears as a list, any other value as its string representation. A
\* field whose getter raises AttributeError is left out.
C7_ReturnedFieldsInDetails ==
    reply.code = 200 =>
        /\ DOMAIN reply.details = ReturnedFields \ TopLevel
        /\ \A k \in DOMAIN reply.details :
              reply.details[k] = Rendered(Returned(k))
        /\ reply.status =
              IF "status" \in ReturnedFields THEN Rendered(Returned("status"))
              ELSE [type |-> "str", data |-> <<"unknown">>]
        /\ reply.objective_value =
              IF "objective_value" \in ReturnedFields
              THEN Rendered(Returned("objective_value"))
              ELSE [type |-> "NoneType", data |-> <<>>]

\* A response with both top-level fields taken from the result and a numpy
\* dual_vector in details.
C7_Witness ==
    /\ reply.code = 200
    /\ ReturnedFields = {"status", "objective_value", "dual_vector"}
    /\ result[GetterOf("dual_vector")].type = "ndarray"
    /\ DOMAIN reply.details = {"dual_vector"}

\* Both checks of the request have passed.
ChecksPassed == spc \in {"parse", "reshape"} \/ reply.code \in {200, 500}

\* Every call the request leads to has been made: batch_size ParseMps
\* calls, then one BatchSolve call on the models they returned.
AllCallsMade ==
    /\ Len(parsed) = request.batch_size
    /\ Len(solves) = 1
    /\ solves[1].models = parsed

\* C12: the parser and the solver are called only for a request whose
\* resolved file exists. A request with batch_size >= 1 whose resolved path
\* is inside the base directory and names no existing file is answered 404
\* with no parser and no solver call. Once both checks have passed, the
\* parser is called on the resolved path only, batch_size times, then
\* BatchSolve is called once on the models parsed, and the response is
\* built from the first solution of the batch; a request whose calls stop
\* short of that (a library call raised) is answered 500.
C12_ParseThenSolveOnlyForExistingFile ==
    /\ (parsed # <<>> \/ solves # <<>>) => ChecksPassed /\ file_path \in sfs
    /\ ( /\ spc = "done"
         /\ request.batch_size >= 1
         /\ InsideBase(file_path)
         /\ file_path \notin sfs )
       => reply.code = 404 /\ parsed = <<>> /\ solves = <<>>
    /\ Len(parsed) <= request.batch_size
    /\ \A i \in DOMAIN parsed : parsed[i] = file_path
    /\ solves # <<>> => AllCallsMade
    /\ (spc = "reshape" \/ reply.code = 200) =>
          /\ AllCallsMade
          /\ Len(batch_solution) = request.batch_size
          /\ result = batch_solution[1]
    /\ reply.code = 200 =>
          reply = SolverResponse(full_result_dict(batch_solution[1]))
    /\ (spc = "done" /\ ChecksPassed /\ ~AllCallsMade) => reply.code = 500

\* A batch of two whose second solution would have given another response:
\* the file was parsed twice, solved once, and the response is the first
\* solution's.
C12_Witness ==
    /\ spc = "done"
    /\ reply.code = 200
    /\ request.batch_size = 2
    /\ parsed = <<file_path, file_path>>
    /\ Len(solves) = 1
    /\ ~LoopRaises(batch_solution[2])
    /\ SolverResponse(full_result_dict(batch_solution[2])) # reply

====
